---- MODULE Spec2Model ----
(***************************************************************************)
(* Inventory ledger of inventory_cli.py: the items and stock_moves tables  *)
(* of the SQLite database, the data access layer, the business logic, the  *)
(* CSV import/export and the command handlers.                             *)
(*                                                                         *)
(* Texts (SKU, name, unit, CSV fields) are sequences of code points, so    *)
(* that str.strip(), int() and the BINARY collation of ORDER BY sku are    *)
(* computed and not assumed.  The free-text columns reason and ref of      *)
(* stock_moves and the columns created_at / updated_at of items are        *)
(* carried verbatim by the code and read by no decision; rows are modelled *)
(* by the fields the Item dataclass and the queries use.                   *)
(***************************************************************************)
EXTENDS Integers, Sequences, FiniteSets, TLC

\* ------------------------------------------------------------------ bounds
\* AUTOINCREMENT ids handed out for items / stock_moves, the wall clock in
\* seconds, and the number of data rows of an imported CSV file.
MaxItemId == 2
MaxMoveId == 2
MaxTime == 1
MaxRows == 2
\* ids of stock_moves handed out while invocations run concurrently
MaxConcMoves == 3

\* ------------------------------------------------------------------- texts
TxtEmpty == <<>>
TxtA == <<65>>
TxtSpA == <<32, 65>>
TxtB == <<66>>
TxtN == <<78>>
TxtPcs == <<112, 99, 115>>
TxtBox == <<98, 111, 120>>
TxtTwo == <<50>>
TxtX == <<120>>

IsSpace(c) == c = 32

IsDigit(c) == c >= 48 /\ c <= 57

RECURSIVE LStrip(_)
LStrip(s) ==
    IF s = <<>> THEN <<>>
    ELSE IF IsSpace(Head(s)) THEN LStrip(Tail(s)) ELSE s

RECURSIVE RStrip(_)
RStrip(s) ==
    IF s = <<>> THEN <<>>
    ELSE IF IsSpace(s[Len(s)]) THEN RStrip(SubSeq(s, 1, Len(s) - 1)) ELSE s

\* str.strip()
Strip(s) == RStrip(LStrip(s))

\* memcmp order of two texts (ORDER BY on a TEXT column, BINARY collation)
RECURSIVE TxtLess(_, _)
TxtLess(a, b) ==
    IF b = <<>> THEN FALSE
    ELSE IF a = <<>> THEN TRUE
    ELSE IF Head(a) # Head(b) THEN Head(a) < Head(b)
    ELSE TxtLess(Tail(a), Tail(b))

RECURSIVE DigitsValue(_, _)
DigitsValue(s, acc) ==
    IF s = <<>> THEN acc ELSE DigitsValue(Tail(s), acc * 10 + (Head(s) - 48))

\* int(text): surrounding whitespace is dropped, the rest must be digits
\* with an optional sign; anything else raises ValueError.
ParseInt(raw) ==
    LET s == Strip(raw)
        neg == s # <<>> /\ Head(s) = 45
        body == IF s # <<>> /\ (Head(s) = 45 \/ Head(s) = 43) THEN Tail(s) ELSE s
    IN  IF body # <<>> /\ \A i \in 1..Len(body) : IsDigit(body[i])
        THEN [ok |-> TRUE, val |-> IF neg THEN 0 - DigitsValue(body, 0) ELSE DigitsValue(body, 0)]
        ELSE [ok |-> FALSE, val |-> 0]

\* ------------------------------------------------------------------- state
VARIABLES
    items,      \* table items: rows [id, sku, name, unit, min_qty]
    itemSeq,    \* sqlite_sequence of items: the largest id ever handed out
    moves,      \* table stock_moves: rows [id, item_id, change_qty, at]
    moveSeq,    \* sqlite_sequence of stock_moves
    now,        \* the wall clock read by datetime.now(), in seconds
    out,        \* what the last command invocation reported
    procs,      \* per concurrently running invocation: its command and position
    writer      \* the invocation holding the database's write lock, or NoProc

vars == <<items, itemSeq, moves, moveSeq, now, out, procs, writer>>


\* --------------------------------------------------------- data access layer
\* connect() opens the database without PRAGMA foreign_keys: the pragma of
\* SCHEMA_SQL holds only on the connection init_db ran it on, and SQLite's
\* default is OFF, so FOREIGN KEY ... ON DELETE CASCADE is not enforced on the
\* connections the commands use.
ConnForeignKeys == FALSE

HasSku(its, sku) == \E i \in its : i.sku = sku

\* get_item_by_sku, for a sku that is present (HasSku decides `if not row`)
GetItemBySku(its, sku) == CHOOSE i \in its : i.sku = sku

Item(id, sku, name, unit, min_qty) ==
    [id |-> id, sku |-> sku, name |-> name, unit |-> unit, min_qty |-> min_qty]

\* the largest id among the rows of a table, 0 for an empty table
MaxRowId(its) == IF its = {} THEN 0 ELSE CHOOSE n \in {i.id : i \in its} : \A i \in its : i.id <= n

\* mutant of InsertItem: the id column without AUTOINCREMENT, the new id is
\* one above the largest id still in the table
InsertItemRowidReuse(its, seq, sku, name, unit, min_qty) ==
    [items |-> its \cup {Item(MaxRowId(its) + 1, sku, name, unit, min_qty)},
     itemSeq |-> MaxRowId(its) + 1]

\* INSERT INTO items (sku, name, unit, min_qty): AUTOINCREMENT hands out
\* an id above every id handed out before
InsertItem(its, seq, sku, name, unit, min_qty) ==
    [items |-> its \cup {Item(seq + 1, sku, name, unit, min_qty)}, itemSeq |-> seq + 1]

\* UPDATE items SET name, unit, min_qty WHERE sku = ?
UpdateItem(its, sku, name, unit, min_qty) ==
    {IF i.sku = sku THEN Item(i.id, i.sku, name, unit, min_qty) ELSE i : i \in its}

\* mutant of UpsertItem: INSERT OR REPLACE, the row is written anew
UpsertItemReplace(its, seq, sku, name, unit, min_qty) ==
    LET ins == InsertItem({i \in its : i.sku # sku}, seq, sku, name, unit, min_qty)
    IN  [items |-> ins.items, itemSeq |-> ins.itemSeq,
         item |-> Item(ins.itemSeq, sku, name, unit, min_qty)]

\* upsert_item on the tables <<its, seq>>: the new tables and the Item returned
UpsertItem(its, seq, sku, name, unit, min_qty) ==
    IF HasSku(its, sku)
    THEN LET upd == UpdateItem(its, sku, name, unit, min_qty)
         IN  [items |-> upd, itemSeq |-> seq, item |-> GetItemBySku(upd, sku)]
    ELSE LET ins == InsertItem(its, seq, sku, name, unit, min_qty)
         IN  [items |-> ins.items, itemSeq |-> ins.itemSeq,
              item |-> Item(ins.itemSeq, sku, name, unit, min_qty)]

\* delete_item: DELETE FROM items WHERE sku = ?; the cascade to stock_moves
\* runs only on a connection that enforces foreign keys.
DeleteItem(its, mvs, sku) ==
    LET gone == {i \in its : i.sku = sku}
    IN  [items |-> its \ gone,
         moves |-> IF ConnForeignKeys
                   THEN {m \in mvs : \A i \in gone : m.item_id # i.id}
                   ELSE mvs,
         ok |-> gone # {}]

Move(id, item_id, change_qty, at) ==
    [id |-> id, item_id |-> item_id, change_qty |-> change_qty, at |-> at]

\* add_move: the new table, the new sequence value and lastrowid
AddMove(mvs, seq, item, change_qty, at) ==
    [moves |-> mvs \cup {Move(seq + 1, item.id, change_qty, at)},
     moveSeq |-> seq + 1,
     id |-> seq + 1]

\* SUM(change_qty) over a set of rows; SQL's SUM of no rows is NULL
RECURSIVE SqlSum(_)
SqlSum(rows) ==
    IF rows = {} THEN [null |-> TRUE, val |-> 0]
    ELSE LET r == CHOOSE x \in rows : TRUE
             rest == SqlSum(rows \ {r})
         IN  [null |-> FALSE, val |-> r.change_qty + rest.val]

Coalesce(v, dflt) == IF v.null THEN dflt ELSE v.val

\* mutant of MovesOf: the WHERE item_id = ? is dropped
MovesOfAnyItem(mvs, item) == mvs

\* the rows of stock_moves that WHERE item_id = ? selects
MovesOf(mvs, item) == {m \in mvs : m.item_id = item.id}

\* get_stock
GetStock(mvs, item) == Coalesce(SqlSum(MovesOf(mvs, item)), 0)


\* mutant of OrderBySku: the rows come in id order
RECURSIVE OrderById(_)
OrderById(rows) ==
    IF rows = {} THEN <<>>
    ELSE LET first == CHOOSE x \in rows : \A y \in rows : x.item.id <= y.item.id
         IN  <<first>> \o OrderById(rows \ {first})

\* ORDER BY i.sku over a set of rows with distinct skus
RECURSIVE OrderBySku(_)
OrderBySku(rows) ==
    IF rows = {} THEN <<>>
    ELSE LET first == CHOOSE x \in rows : \A y \in rows \ {x} : ~TxtLess(y.item.sku, x.item.sku)
         IN  <<first>> \o OrderBySku(rows \ {first})

\* list_items_with_stock: items LEFT JOIN stock_moves GROUP BY i.id, each
\* group's COALESCE(SUM(m.change_qty), 0), ORDER BY i.sku
ListItemsWithStock(its, mvs) ==
    OrderBySku({[item |-> i, qty |-> Coalesce(SqlSum({m \in mvs : m.item_id = i.id}), 0)] : i \in its})

\* mutant of HistoryBefore: ORDER BY at DESC alone, ties in insertion order
HistoryBeforeIdAsc(a, b) == a.at > b.at \/ (a.at = b.at /\ a.id < b.id)

\* ORDER BY at DESC, id DESC
HistoryBefore(a, b) == a.at > b.at \/ (a.at = b.at /\ a.id > b.id)

RECURSIVE OrderByAtIdDesc(_)
OrderByAtIdDesc(rows) ==
    IF rows = {} THEN <<>>
    ELSE LET first == CHOOSE x \in rows : \A y \in rows \ {x} : HistoryBefore(x, y)
         IN  <<first>> \o OrderByAtIdDesc(rows \ {first})

\* LIMIT n: the first n rows; SQLite reads a negative LIMIT as no limit
SqlLimit(rows, n) ==
    IF n < 0 \/ n >= Len(rows) THEN rows ELSE SubSeq(rows, 1, n)

\* iter_history
IterHistory(mvs, item, limit) == SqlLimit(OrderByAtIdDesc(MovesOf(mvs, item)), limit)

\* ----------------------------------------------------------- business logic
\* mutant of EnsureStockForOut: the requested quantity is left out of the test
EnsureStockForOutNoQty(mvs, item, qty, allow_negative) ==
    ~(~allow_negative /\ GetStock(mvs, item) < 0)

\* mutant of EnsureStockForOut: allow_negative is not consulted
EnsureStockForOutNoFlag(mvs, item, qty, allow_negative) ==
    ~(GetStock(mvs, item) - qty < 0)

\* mutant of EnsureStockForOut: the quantity is added to the stock
EnsureStockForOutPlusQty(mvs, item, qty, allow_negative) ==
    ~(~allow_negative /\ GetStock(mvs, item) + qty < 0)

\* ensure_stock_for_out: TRUE when it returns, FALSE when it raises 在庫不足
EnsureStockForOut(mvs, item, qty, allow_negative) ==
    ~(~allow_negative /\ GetStock(mvs, item) - qty < 0)

Unchanged(mvs, seq, status) ==
    [status |-> status, moves |-> mvs, moveSeq |-> seq, id |-> 0]

\* mutant of RegisterIn: the SKU lookup's result is not tested, and the
\* movement of an unregistered SKU is written against no item
RegisterInNoLookup(its, mvs, seq, sku, qty, at) ==
    IF qty <= 0 THEN Unchanged(mvs, seq, "InvalidQuantity")
    ELSE LET item == IF HasSku(its, sku) THEN GetItemBySku(its, sku) ELSE [id |-> 0]
             w == AddMove(mvs, seq, item, qty, at)
         IN  [status |-> "ok", moves |-> w.moves, moveSeq |-> w.moveSeq, id |-> w.id]

\* register_in on the tables; `at` is the clock add_move reads
RegisterIn(its, mvs, seq, sku, qty, at) ==
    IF qty <= 0 THEN Unchanged(mvs, seq, "InvalidQuantity")
    ELSE IF ~HasSku(its, sku) THEN Unchanged(mvs, seq, "UnknownItem")
    ELSE LET w == AddMove(mvs, seq, GetItemBySku(its, sku), qty, at)
         IN  [status |-> "ok", moves |-> w.moves, moveSeq |-> w.moveSeq, id |-> w.id]

\* mutant of RegisterOut: the quantity test is `qty < 0`, zero passes
RegisterOutZeroOk(its, mvs, seq, sku, qty, allow_negative, at) ==
    IF qty < 0 THEN Unchanged(mvs, seq, "InvalidQuantity")
    ELSE IF ~HasSku(its, sku) THEN Unchanged(mvs, seq, "UnknownItem")
    ELSE IF ~EnsureStockForOut(mvs, GetItemBySku(its, sku), qty, allow_negative)
         THEN Unchanged(mvs, seq, "InsufficientStock")
    ELSE LET w == AddMove(mvs, seq, GetItemBySku(its, sku), 0 - qty, at)
         IN  [status |-> "ok", moves |-> w.moves, moveSeq |-> w.moveSeq, id |-> w.id]

\* mutant of RegisterOut: the movement is written with +qty
RegisterOutWrongSign(its, mvs, seq, sku, qty, allow_negative, at) ==
    IF qty <= 0 THEN Unchanged(mvs, seq, "InvalidQuantity")
    ELSE IF ~HasSku(its, sku) THEN Unchanged(mvs, seq, "UnknownItem")
    ELSE IF ~EnsureStockForOut(mvs, GetItemBySku(its, sku), qty, allow_negative)
         THEN Unchanged(mvs, seq, "InsufficientStock")
    ELSE LET w == AddMove(mvs, seq, GetItemBySku(its, sku), qty, at)
         IN  [status |-> "ok", moves |-> w.moves, moveSeq |-> w.moveSeq, id |-> w.id]

\* register_out
RegisterOut(its, mvs, seq, sku, qty, allow_negative, at) ==
    IF qty <= 0 THEN Unchanged(mvs, seq, "InvalidQuantity")
    ELSE IF ~HasSku(its, sku) THEN Unchanged(mvs, seq, "UnknownItem")
    ELSE IF ~EnsureStockForOut(mvs, GetItemBySku(its, sku), qty, allow_negative)
         THEN Unchanged(mvs, seq, "InsufficientStock")
    ELSE LET w == AddMove(mvs, seq, GetItemBySku(its, sku), 0 - qty, at)
         IN  [status |-> "ok", moves |-> w.moves, moveSeq |-> w.moveSeq, id |-> w.id]


\* ------------------------------------------------------------------ CSV I/O
\* An items CSV file as csv.DictReader hands it over: the set of header
\* names and, per data row, the text of each header column.
Required == {"sku", "name", "unit", "min_qty"}

\* `set(reader.fieldnames or []) < required`: Python's < on sets is the
\* proper-subset test
HeaderRejected(header) == header \subseteq Required /\ header # Required

\* row.get(col) or dflt
GetOr(row, col, dflt) ==
    IF col \in DOMAIN row /\ row[col] # <<>> THEN row[col] ELSE dflt

\* the unit of a row: (row.get("unit") or "pcs").strip() or "pcs"
RowUnit(row) ==
    LET u == Strip(GetOr(row, "unit", TxtPcs))
    IN  IF u # <<>> THEN u ELSE TxtPcs

\* the min_qty of a row: int(row.get("min_qty") or 0)
RowMinQty(row) ==
    IF "min_qty" \in DOMAIN row /\ row["min_qty"] # <<>>
    THEN ParseInt(row["min_qty"])
    ELSE [ok |-> TRUE, val |-> 0]

\* mutant of ImportRows: count is incremented for the rows that register a
\* new item only
RECURSIVE ImportRowsCountNew(_, _, _, _, _)
ImportRowsCountNew(its, seq, rows, k, count) ==
    IF k > Len(rows) THEN [status |-> "ok", items |-> its, itemSeq |-> seq, count |-> count]
    ELSE LET row == rows[k]
         IN  IF "sku" \notin DOMAIN row \/ "name" \notin DOMAIN row
             THEN [status |-> "KeyError", items |-> its, itemSeq |-> seq, count |-> count]
             ELSE IF ~RowMinQty(row).ok
             THEN [status |-> "InvalidImportRow", items |-> its, itemSeq |-> seq, count |-> count]
             ELSE LET u == UpsertItem(its, seq, Strip(row["sku"]), Strip(row["name"]),
                                      RowUnit(row), RowMinQty(row).val)
                  IN  ImportRowsCountNew(u.items, u.itemSeq, rows, k + 1,
                                         IF u.itemSeq > seq THEN count + 1 ELSE count)

\* the for loop of import_items_csv over rows[k..], on the working tables of
\* the open transaction; it stops at the first row that raises.
RECURSIVE ImportRows(_, _, _, _, _)
ImportRows(its, seq, rows, k, count) ==
    IF k > Len(rows) THEN [status |-> "ok", items |-> its, itemSeq |-> seq, count |-> count]
    ELSE LET row == rows[k]
         IN  IF "sku" \notin DOMAIN row \/ "name" \notin DOMAIN row
             THEN [status |-> "KeyError", items |-> its, itemSeq |-> seq, count |-> count]
             ELSE IF ~RowMinQty(row).ok
             THEN [status |-> "InvalidImportRow", items |-> its, itemSeq |-> seq, count |-> count]
             ELSE LET u == UpsertItem(its, seq, Strip(row["sku"]), Strip(row["name"]),
                                      RowUnit(row), RowMinQty(row).val)
                  IN  ImportRows(u.items, u.itemSeq, rows, k + 1, count + 1)

\* mutant of ConnExit: the rows written before the exception stay
ConnExitCommit(raised, before, after) == after

\* `with conn:` around a block: commit when the block returns, rollback when
\* it raises.  before / after are the tables at entry and at exit of the block.
ConnExit(raised, before, after) == IF raised THEN before ELSE after

\* import_items_csv
ImportItemsCsv(its, seq, file) ==
    LET before == [items |-> its, itemSeq |-> seq]
        r == IF HeaderRejected(file.header)
             THEN [status |-> "MissingColumns", items |-> its, itemSeq |-> seq, count |-> 0]
             ELSE ImportRows(its, seq, file.rows, 1, 0)
        db == ConnExit(r.status # "ok", before, [items |-> r.items, itemSeq |-> r.itemSeq])
    IN  [status |-> r.status, items |-> db.items, itemSeq |-> db.itemSeq, count |-> r.count,
         peak |-> r.itemSeq]

\* one record of export_stocks_csv
ExportRecord(r) ==
    [sku |-> r.item.sku, name |-> r.item.name, unit |-> r.item.unit, qty |-> r.qty,
     min_qty |-> r.item.min_qty,
     below_min |-> IF r.qty < r.item.min_qty THEN "true" ELSE "false"]

\* export_stocks_csv: the records written, in order
ExportStocksCsv(its, mvs) ==
    LET rows == ListItemsWithStock(its, mvs)
    IN  [k \in 1..Len(rows) |-> ExportRecord(rows[k])]


\* --------------------------------------------------------------- commands
\* One action per command handler: the handler opens its own connection,
\* runs to the end and commits (or rolls back) before the next command starts.
Procs == {"p1", "p2"}

NoProc == "none"

Idle == [pc |-> "idle"]

Init ==
    /\ items = {}
    /\ itemSeq = 0
    /\ moves = {}
    /\ moveSeq = 0
    /\ now = 0
    /\ out = [op |-> "init"]
    /\ procs = [p \in Procs |-> Idle]
    /\ writer = NoProc

\* cmd_add_item
CmdAddItem(sku, name, unit, min_qty) ==
    LET u == UpsertItem(items, itemSeq, sku, name, unit, min_qty)
    IN  /\ u.itemSeq <= MaxItemId
        /\ items' = u.items
        /\ itemSeq' = u.itemSeq
        /\ out' = [op |-> "add-item", status |-> "ok", item |-> u.item]
        /\ UNCHANGED <<procs, writer, moves, moveSeq, now>>

\* cmd_delete_item
CmdDeleteItem(sku) ==
    LET d == DeleteItem(items, moves, sku)
    IN  /\ items' = d.items
        /\ moves' = d.moves
        /\ out' = [op |-> "delete-item", sku |-> sku, ok |-> d.ok]
        /\ UNCHANGED <<procs, writer, itemSeq, moveSeq, now>>

\* cmd_in
CmdIn(sku, qty) ==
    LET r == RegisterIn(items, moves, moveSeq, sku, qty, now)
    IN  /\ r.moveSeq <= MaxMoveId
        /\ moves' = r.moves
        /\ moveSeq' = r.moveSeq
        /\ out' = [op |-> "in", sku |-> sku, qty |-> qty, status |-> r.status, id |-> r.id]
        /\ UNCHANGED <<procs, writer, items, itemSeq, now>>

\* cmd_out
CmdOut(sku, qty, allow_negative) ==
    LET r == RegisterOut(items, moves, moveSeq, sku, qty, allow_negative, now)
    IN  /\ r.moveSeq <= MaxMoveId
        /\ moves' = r.moves
        /\ moveSeq' = r.moveSeq
        /\ out' = [op |-> "out", sku |-> sku, qty |-> qty, allow |-> allow_negative,
                   status |-> r.status, id |-> r.id]
        /\ UNCHANGED <<procs, writer, items, itemSeq, now>>

\* cmd_stock
CmdStock(sku) ==
    /\ out' = IF HasSku(items, sku)
              THEN [op |-> "stock", sku |-> sku, status |-> "ok",
                    qty |-> GetStock(moves, GetItemBySku(items, sku))]
              ELSE [op |-> "stock", sku |-> sku, status |-> "NotFound", qty |-> 0]
    /\ UNCHANGED <<procs, writer, items, itemSeq, moves, moveSeq, now>>

\* cmd_list: per line the sku, the stock and the LOW mark
CmdList ==
    LET rows == ListItemsWithStock(items, moves)
    IN  /\ out' = [op |-> "list",
                   rows |-> [k \in 1..Len(rows) |->
                               [sku |-> rows[k].item.sku, qty |-> rows[k].qty,
                                low |-> rows[k].qty < rows[k].item.min_qty]]]
        /\ UNCHANGED <<procs, writer, items, itemSeq, moves, moveSeq, now>>

\* cmd_history
CmdHistory(sku, limit) ==
    /\ out' = IF HasSku(items, sku)
              THEN [op |-> "history", sku |-> sku, limit |-> limit, status |-> "ok",
                    rows |-> IterHistory(moves, GetItemBySku(items, sku), limit)]
              ELSE [op |-> "history", sku |-> sku, limit |-> limit, status |-> "NotFound",
                    rows |-> <<>>]
    /\ UNCHANGED <<procs, writer, items, itemSeq, moves, moveSeq, now>>

\* cmd_export
CmdExport ==
    /\ out' = [op |-> "export", rows |-> ExportStocksCsv(items, moves)]
    /\ UNCHANGED <<procs, writer, items, itemSeq, moves, moveSeq, now>>

\* cmd_import
CmdImport(file) ==
    LET r == ImportItemsCsv(items, itemSeq, file)
    IN  /\ r.peak <= MaxItemId
        /\ items' = r.items
        /\ itemSeq' = r.itemSeq
        /\ out' = [op |-> "import", header |-> file.header, status |-> r.status,
                   count |-> r.count]
        /\ UNCHANGED <<procs, writer, moves, moveSeq, now>>

\* a second passes on the wall clock between two commands
Tick ==
    /\ now < MaxTime
    /\ now' = now + 1
    /\ out' = [op |-> "tick"]
    /\ UNCHANGED <<procs, writer, items, itemSeq, moves, moveSeq>>

\* ------------------------------------------------------------------ inputs
\* The arguments the commands are run with.  Every specification runs the
\* same handlers; each draws the arguments its claims are about.
SkuArgs == {TxtA, TxtB}
MinQtyArgs == {0, 1}
QtyArgs == -1..1
LimitArgs == {-1, 1, 2}

\* CSV rows as texts: " A",N,"","2" / B,N,box,"" / B,N,pcs,x (min_qty not an
\* integer)
RowA == [sku |-> TxtSpA, name |-> TxtN, unit |-> TxtEmpty, min_qty |-> TxtTwo, extra |-> TxtX]
RowB == [sku |-> TxtB, name |-> TxtN, unit |-> TxtBox, min_qty |-> TxtEmpty, extra |-> TxtX]
RowBad == [sku |-> TxtB, name |-> TxtN, unit |-> TxtPcs, min_qty |-> TxtX, extra |-> TxtX]

\* the file with header h and the rows rs cut to the header's columns
File(h, rs) == [header |-> h, rows |-> [k \in 1..Len(rs) |-> [c \in h |-> rs[k][c]]]]

RowSeqs == UNION {[1..n -> {RowA, RowB, RowBad}] : n \in 0..MaxRows}

\* files with the four required columns, with an unrelated one more, and
\* one-row files of headers that lack a required column
Files ==
    {File(Required, rs) : rs \in RowSeqs}
    \cup {File(h, <<r>>) :
            h \in {Required \cup {"extra"}, {"sku", "name", "unit"},
                   {"sku", "name", "extra"}, {"name", "unit", "min_qty", "extra"}, {}},
            r \in {RowA, RowBad}}

\* files whose rows are all valid, of every length up to MaxRows, with the
\* required header, with a column more and with unit and min_qty missing,
\* and one file with an invalid row
ValidRowSeqs == UNION {[1..n -> {RowA, RowB}] : n \in 0..MaxRows}

ImportArgs ==
    {File(Required, rs) : rs \in ValidRowSeqs}
    \cup {File(Required \cup {"extra"}, <<RowA>>), File({"sku", "name", "extra"}, <<RowB>>),
          File(Required, <<RowBad>>)}

\* -------------------------------------------------------- specifications
\* Spec: the ledger.  Items are registered, deleted and imported, stock is
\* moved in and out, and stock, listing and export are read.
Next ==
    \/ \E sku \in SkuArgs, m \in MinQtyArgs : CmdAddItem(sku, TxtN, TxtPcs, m)
    \/ \E sku \in SkuArgs : CmdDeleteItem(sku)
    \/ \E sku \in SkuArgs, qty \in QtyArgs : CmdIn(sku, qty)
    \/ \E sku \in SkuArgs, qty \in QtyArgs, allow \in BOOLEAN : CmdOut(sku, qty, allow)
    \/ \E sku \in SkuArgs : CmdStock(sku)
    \/ CmdList
    \/ CmdExport
    \/ \E r \in {RowA, RowBad} : CmdImport(File(Required, <<r>>))

Spec == Init /\ [][Next]_vars

\* SpecHistory: movements registered as the clock advances, and read back.
NextHistory ==
    \/ \E sku \in SkuArgs : CmdAddItem(sku, TxtN, TxtPcs, 0)
    \/ \E sku \in SkuArgs : CmdDeleteItem(sku)
    \/ \E sku \in SkuArgs : CmdIn(sku, 1)
    \/ \E sku \in SkuArgs : CmdOut(sku, 1, FALSE)
    \/ \E sku \in SkuArgs, limit \in LimitArgs : CmdHistory(sku, limit)
    \/ Tick

SpecHistory == Init /\ [][NextHistory]_vars

\* SpecPolicy: the ledger run one command at a time with no outbound ever
\* given --allow-negative.
NextPolicy ==
    \/ \E sku \in SkuArgs : CmdAddItem(sku, TxtN, TxtPcs, 0)
    \/ \E sku \in SkuArgs : CmdDeleteItem(sku)
    \/ \E sku \in SkuArgs, qty \in QtyArgs : CmdIn(sku, qty)
    \/ \E sku \in SkuArgs, qty \in QtyArgs : CmdOut(sku, qty, FALSE)
    \/ \E sku \in SkuArgs : CmdStock(sku)
    \/ \E r \in {RowA, RowBad} : CmdImport(File(Required, <<r>>))

SpecPolicy == Init /\ [][NextPolicy]_vars

\* SpecRecreate: items are registered, deleted and registered again; stock
\* is moved on SKU A only, and stock and history are read.
NextRecreate ==
    \/ \E sku \in SkuArgs : CmdAddItem(sku, TxtN, TxtPcs, 0)
    \/ \E sku \in SkuArgs : CmdDeleteItem(sku)
    \/ CmdIn(TxtA, 1)
    \/ \E allow \in BOOLEAN : CmdOut(TxtA, 1, allow)
    \/ \E sku \in SkuArgs : CmdStock(sku)
    \/ \E sku \in SkuArgs : CmdHistory(sku, -1)

SpecRecreate == Init /\ [][NextRecreate]_vars

\* SpecImport: files imported over items that add-item registered, some of
\* them with stock.
NextImport ==
    \/ \E sku \in SkuArgs : CmdAddItem(sku, TxtN, TxtBox, 0)
    \/ \E sku \in SkuArgs : CmdDeleteItem(sku)
    \/ CmdIn(TxtA, 1)
    \/ \E file \in ImportArgs : CmdImport(file)

SpecImport == Init /\ [][NextImport]_vars

\* SpecRegistry: item definitions written by add-item and by CSV import.
NextRegistry ==
    \/ \E sku \in {TxtA, TxtEmpty}, name \in {TxtN, TxtEmpty} :
          CmdAddItem(sku, name, TxtBox, 0)
    \/ \E sku \in {TxtA, TxtB} : CmdDeleteItem(sku)
    \/ CmdIn(TxtA, 1)
    \/ \E file \in Files : CmdImport(file)

SpecRegistry == Init /\ [][NextRegistry]_vars


\* ------------------------------------------------- concurrent invocations
\* Two command processes run at once, each on its own connection.  A process
\* runs its SQL statements one at a time; the sqlite3 module opens a
\* transaction only in front of an INSERT / UPDATE / DELETE, so the SELECTs
\* before the first write each read the committed tables on their own, and
\* the process holds the database's write lock from its first write to its
\* commit.  A write of another process waits for the lock.
Done(cmd, status) == [pc |-> "done", cmd |-> cmd, status |-> status]

CanStart(p) == procs[p].pc \in {"idle", "done"}

\* cmd_out, register_out up to get_item_by_sku
OutGetItem(p, sku, qty, allow_negative) ==
    /\ CanStart(p)
    /\ procs' = [procs EXCEPT ![p] =
          IF qty <= 0 THEN Done("out", "InvalidQuantity")
          ELSE IF ~HasSku(items, sku) THEN Done("out", "UnknownItem")
          ELSE [pc |-> "out_check", cmd |-> "out", item |-> GetItemBySku(items, sku),
                qty |-> qty, allow |-> allow_negative]]
    /\ UNCHANGED <<items, itemSeq, moves, moveSeq, now, out, writer>>

\* register_out: ensure_stock_for_out on the tables as committed now
OutEnsureStock(p) ==
    /\ procs[p].pc = "out_check"
    /\ procs' = [procs EXCEPT ![p] =
          IF EnsureStockForOut(moves, procs[p].item, procs[p].qty, procs[p].allow)
          THEN [@ EXCEPT !.pc = "out_insert"]
          ELSE Done("out", "InsufficientStock")]
    /\ UNCHANGED <<items, itemSeq, moves, moveSeq, now, out, writer>>

\* register_out: add_move's INSERT, which takes the write lock
OutAddMove(p) ==
    /\ procs[p].pc = "out_insert"
    /\ writer = NoProc
    /\ moveSeq < MaxConcMoves
    /\ writer' = p
    /\ procs' = [procs EXCEPT ![p] = [@ EXCEPT !.pc = "out_commit"]]
    /\ UNCHANGED <<items, itemSeq, moves, moveSeq, now, out>>

\* cmd_out: the `with conn` block ends and commits the movement
OutCommit(p) ==
    LET w == AddMove(moves, moveSeq, procs[p].item, 0 - procs[p].qty, now)
    IN  /\ procs[p].pc = "out_commit"
        /\ moves' = w.moves
        /\ moveSeq' = w.moveSeq
        /\ writer' = NoProc
        /\ procs' = [procs EXCEPT ![p] = Done("out", "ok")]
        /\ UNCHANGED <<items, itemSeq, now, out>>

\* cmd_in, register_in up to get_item_by_sku
InGetItem(p, sku, qty) ==
    /\ CanStart(p)
    /\ procs' = [procs EXCEPT ![p] =
          IF qty <= 0 THEN Done("in", "InvalidQuantity")
          ELSE IF ~HasSku(items, sku) THEN Done("in", "UnknownItem")
          ELSE [pc |-> "in_insert", cmd |-> "in", item |-> GetItemBySku(items, sku),
                qty |-> qty]]
    /\ UNCHANGED <<items, itemSeq, moves, moveSeq, now, out, writer>>

\* register_in: add_move's INSERT
InAddMove(p) ==
    /\ procs[p].pc = "in_insert"
    /\ writer = NoProc
    /\ moveSeq < MaxConcMoves
    /\ writer' = p
    /\ procs' = [procs EXCEPT ![p] = [@ EXCEPT !.pc = "in_commit"]]
    /\ UNCHANGED <<items, itemSeq, moves, moveSeq, now, out>>

\* cmd_in: commit
InCommit(p) ==
    LET w == AddMove(moves, moveSeq, procs[p].item, procs[p].qty, now)
    IN  /\ procs[p].pc = "in_commit"
        /\ moves' = w.moves
        /\ moveSeq' = w.moveSeq
        /\ writer' = NoProc
        /\ procs' = [procs EXCEPT ![p] = Done("in", "ok")]
        /\ UNCHANGED <<items, itemSeq, now, out>>

\* cmd_add_item, upsert_item's first get_item_by_sku: `if existing`
UpsertSelect(p, sku, name, unit, min_qty) ==
    /\ CanStart(p)
    /\ procs' = [procs EXCEPT ![p] =
          [pc |-> IF HasSku(items, sku) THEN "upsert_update" ELSE "upsert_insert",
           cmd |-> "add-item", sku |-> sku, name |-> name, unit |-> unit,
           min_qty |-> min_qty]]
    /\ UNCHANGED <<items, itemSeq, moves, moveSeq, now, out, writer>>

\* upsert_item's INSERT: sku is UNIQUE, so the statement raises
\* IntegrityError when a row with the sku has been committed since the SELECT
UpsertInsert(p) ==
    /\ procs[p].pc = "upsert_insert"
    /\ writer = NoProc
    /\ IF HasSku(items, procs[p].sku)
       THEN /\ procs' = [procs EXCEPT ![p] = Done("add-item", "IntegrityError")]
            /\ UNCHANGED writer
       ELSE /\ itemSeq < MaxItemId
            /\ procs' = [procs EXCEPT ![p] = [@ EXCEPT !.pc = "upsert_commit_insert"]]
            /\ writer' = p
    /\ UNCHANGED <<items, itemSeq, moves, moveSeq, now, out>>

\* upsert_item's UPDATE and the get_item_by_sku after it: the assert fails
\* when the row has been deleted since the first SELECT
UpsertUpdate(p) ==
    /\ procs[p].pc = "upsert_update"
    /\ writer = NoProc
    /\ IF HasSku(items, procs[p].sku)
       THEN /\ procs' = [procs EXCEPT ![p] = [@ EXCEPT !.pc = "upsert_commit_update"]]
            /\ writer' = p
       ELSE /\ procs' = [procs EXCEPT ![p] = Done("add-item", "AssertionError")]
            /\ UNCHANGED writer
    /\ UNCHANGED <<items, itemSeq, moves, moveSeq, now, out>>

\* cmd_add_item: commit
UpsertCommit(p) ==
    LET a == procs[p]
    IN  /\ a.pc \in {"upsert_commit_insert", "upsert_commit_update"}
        /\ IF a.pc = "upsert_commit_insert"
           THEN LET ins == InsertItem(items, itemSeq, a.sku, a.name, a.unit, a.min_qty)
                IN  items' = ins.items /\ itemSeq' = ins.itemSeq
           ELSE items' = UpdateItem(items, a.sku, a.name, a.unit, a.min_qty)
                /\ itemSeq' = itemSeq
        /\ writer' = NoProc
        /\ procs' = [procs EXCEPT ![p] = Done("add-item", "ok")]
        /\ UNCHANGED <<moves, moveSeq, now, out>>

\* cmd_delete_item: one DELETE and the commit
DeleteStmt(p, sku) ==
    LET d == DeleteItem(items, moves, sku)
    IN  /\ CanStart(p)
        /\ writer = NoProc
        /\ items' = d.items
        /\ moves' = d.moves
        /\ procs' = [procs EXCEPT ![p] = Done("delete-item", IF d.ok THEN "ok" ELSE "NotFound")]
        /\ UNCHANGED <<itemSeq, moveSeq, now, out, writer>>

\* SpecConc: invocations of add-item, delete-item, in and out (never with
\* --allow-negative) on one SKU, interleaved statement by statement.
NextConc ==
    \E p \in Procs :
        \/ OutGetItem(p, TxtA, 1, FALSE)
        \/ OutEnsureStock(p)
        \/ OutAddMove(p)
        \/ OutCommit(p)
        \/ InGetItem(p, TxtA, 1)
        \/ InAddMove(p)
        \/ InCommit(p)
        \/ UpsertSelect(p, TxtA, TxtN, TxtPcs, 0)
        \/ UpsertInsert(p)
        \/ UpsertUpdate(p)
        \/ UpsertCommit(p)
        \/ DeleteStmt(p, TxtA)

SpecConc == Init /\ [][NextConc]_vars


\* ------------------------------------------------------------------ claims
\* the change_qty of movement k when item id owns it, else 0
OwnedQty(id, k) ==
    IF \E m \in moves : m.id = k /\ m.item_id = id
    THEN (CHOOSE m \in moves : m.id = k /\ m.item_id = id).change_qty
    ELSE 0

\* the sum of change_qty over the movements 1..k that item id owns
RECURSIVE LedgerTotal(_, _)
LedgerTotal(id, k) == IF k = 0 THEN 0 ELSE LedgerTotal(id, k - 1) + OwnedQty(id, k)

\* C1: the current stock of every registered item is the sum of change_qty
\* over the movements it owns, 0 when it owns none; the stock command
\* reports that sum.
C1_StockIsSumOfMovements ==
    /\ \A i \in items :
          /\ GetStock(moves, i) = LedgerTotal(i.id, moveSeq)
          /\ (\A m \in moves : m.item_id # i.id) => GetStock(moves, i) = 0
    /\ (out.op = "stock" /\ out.status = "ok") =>
          \E i \in items : i.sku = out.sku /\ out.qty = LedgerTotal(i.id, moveSeq)

\* C1 witness: the stock of an item owning two movements has been read while
\* another item owns none
C1_Witness ==
    /\ out.op = "stock" /\ out.status = "ok"
    /\ \E i \in items :
          /\ i.sku = out.sku
          /\ Cardinality({m \in moves : m.item_id = i.id}) >= 2
          /\ out.qty = 0
    /\ \E j \in items : \A m \in moves : m.item_id # j.id

\* C2: an outbound without allow_negative that asks for more than the stock
\* of a registered item fails with InsufficientStock and leaves the
\* movements, and with them every stock, as they were.
C2_RejectedOutWritesNothing ==
    [][(/\ out'.op = "out" /\ out'.qty > 0 /\ ~out'.allow
        /\ HasSku(items, out'.sku)
        /\ LedgerTotal(GetItemBySku(items, out'.sku).id, moveSeq) - out'.qty < 0)
       => (/\ out'.status = "InsufficientStock"
           /\ moves' = moves /\ moveSeq' = moveSeq /\ items' = items)]_vars

\* C2 witness: an outbound was rejected on an item that has movements
C2_Witness ==
    /\ out.op = "out" /\ out.status = "InsufficientStock" /\ ~out.allow
    /\ \E i \in items : i.sku = out.sku /\ \E m \in moves : m.item_id = i.id

\* C3: with every outbound run without allow_negative, the stock of every
\* registered item is >= 0 in every state concurrent invocations reach.
C3_StockNeverNegative == \A i \in items : LedgerTotal(i.id, moveSeq) >= 0

\* C4: every movement's item id is the id of an existing item.
C4_NoOrphanMovement == \A m \in moves : \E i \in items : i.id = m.item_id

\* C5: an import that stops with InvalidImportRow applies no row: items,
\* the id sequence and the movements are as before the import.
C5_ImportAllOrNothing ==
    [][(out'.op = "import" /\ out'.status = "InvalidImportRow")
       => (items' = items /\ itemSeq' = itemSeq /\ moves' = moves)]_vars

\* C5 witness: an import stopped at its second row, after a valid first row
\* that no registered item matched
C5_Witness ==
    /\ out.op = "import" /\ out.status = "InvalidImportRow" /\ out.count = 1
    /\ items = {}

\* the arguments of the add-item that `o` reports
UpsertArgs(o) == <<o.item.sku, o.item.name, o.item.unit, o.item.min_qty>>

\* C6: an add-item leaves exactly one row with its SKU; on a SKU that is
\* registered it keeps the row's id and every other row, and leaves the
\* movements, and with them the stock, as they were; run again with the same
\* arguments it changes nothing.
C6_UpsertIdempotent ==
    [][out'.op = "add-item"
       => LET sku == out'.item.sku
          IN  /\ Cardinality({i \in items' : i.sku = sku}) = 1
              /\ out'.item \in items'
              /\ moves' = moves /\ moveSeq' = moveSeq
              /\ HasSku(items, sku) =>
                    /\ out'.item.id = GetItemBySku(items, sku).id
                    /\ {i \in items' : i.sku # sku} = {i \in items : i.sku # sku}
                    /\ itemSeq' = itemSeq
                    /\ LedgerTotal(out'.item.id, moveSeq)
                         = SqlSum({m \in moves' : m.item_id = out'.item.id}).val
              /\ (out.op = "add-item" /\ UpsertArgs(out) = UpsertArgs(out')) =>
                    (items' = items /\ out'.item = out.item)]_vars

\* C6 witness: an add-item changed the attributes of an item that owns a
\* movement and was not the last one registered
C6_Witness ==
    /\ out.op = "add-item" /\ out.item.id < itemSeq
    /\ out.item.unit = TxtBox /\ out.item.sku = TxtA
    /\ \E m \in moves : m.item_id = out.item.id

\* C7: an outbound with allow_negative on a registered item succeeds whatever
\* the stock is, and the stock drops by the quantity.
C7_AllowNegativeBypasses ==
    [][(out'.op = "out" /\ out'.qty > 0 /\ out'.allow /\ HasSku(items, out'.sku))
       => LET id == GetItemBySku(items, out'.sku).id
          IN  /\ out'.status = "ok"
              /\ \E m \in moves' \ moves : m.item_id = id /\ m.change_qty = 0 - out'.qty
              /\ SqlSum({m \in moves' : m.item_id = id}).val
                   = LedgerTotal(id, moveSeq) - out'.qty]_vars

\* C7 witness: an allowed outbound took an item's stock from 0 to -1
C7_Witness ==
    /\ out.op = "out" /\ out.allow /\ out.status = "ok" /\ out.qty = 1
    /\ \E i \in items : i.sku = out.sku /\ LedgerTotal(i.id, moveSeq) = -1

\* the rows of a history listing are movements of item i, each once, in
\* descending order of timestamp and then of id
HistoryOrdered(rows, i) ==
    /\ \A k \in 1..Len(rows) : rows[k] \in moves /\ rows[k].item_id = i.id
    /\ \A j, k \in 1..Len(rows) :
          j < k => \/ rows[j].at > rows[k].at
                   \/ (rows[j].at = rows[k].at /\ rows[j].id > rows[k].id)
    \* a movement left out comes after every row in that order
    /\ \A m \in moves : \A k \in 1..Len(rows) :
          (m.item_id = i.id /\ \A j \in 1..Len(rows) : rows[j] # m)
             => (rows[k].at > m.at \/ (rows[k].at = m.at /\ rows[k].id > m.id))
    \* a movement registered later comes before one registered earlier
    /\ \A j, k \in 1..Len(rows) : rows[j].id > rows[k].id => j < k

OwnedCount(i) == Cardinality({m \in moves : m.item_id = i.id})

ListsEveryItem(rows) ==
    /\ Len(rows) = Cardinality(items)
    /\ \A i \in items : \E k \in 1..Len(rows) : rows[k].sku = i.sku
    /\ \A k \in 1..Len(rows) - 1 : TxtLess(rows[k].sku, rows[k + 1].sku)
    /\ \A k \in 1..Len(rows) : \E i \in items :
          i.sku = rows[k].sku /\ rows[k].qty = LedgerTotal(i.id, moveSeq)

\* C9: the listing and the export hold one record per registered item, in
\* ascending SKU order, with the item's stock as qty, flagged exactly when
\* the stock is strictly below min_qty.
C9_ListAndExport ==
    /\ out.op = "list" =>
          /\ ListsEveryItem(out.rows)
          /\ \A k \in 1..Len(out.rows) : \E i \in items :
                i.sku = out.rows[k].sku /\ (out.rows[k].low <=> out.rows[k].qty < i.min_qty)
    /\ out.op = "export" =>
          /\ ListsEveryItem(out.rows)
          /\ \A k \in 1..Len(out.rows) : \E i \in items :
                /\ i.sku = out.rows[k].sku
                /\ out.rows[k].name = i.name /\ out.rows[k].unit = i.unit
                /\ out.rows[k].min_qty = i.min_qty
                /\ out.rows[k].below_min \in {"true", "false"}
                /\ out.rows[k].below_min = "true" <=> out.rows[k].qty < i.min_qty

\* C9 witness: an export of two items, the one with the smaller SKU
\* registered later, one with its stock equal to a min_qty of 1 and not
\* flagged, the other below its min_qty and flagged
C9_Witness ==
    /\ out.op = "export" /\ Len(out.rows) = 2
    /\ \E i, j \in items : TxtLess(i.sku, j.sku) /\ i.id > j.id
    /\ \E k \in 1..2 :
          out.rows[k].qty = 1 /\ out.rows[k].min_qty = 1 /\ out.rows[k].below_min = "false"
    /\ \E k \in 1..2 : out.rows[k].below_min = "true"

\* C10: an import fails with MissingColumns exactly when its header lacks
\* one of sku, name, unit, min_qty.
C10_MissingColumns ==
    out.op = "import" =>
        (out.status = "MissingColumns" <=> ~(Required \subseteq out.header))

\* C11: an inbound or outbound with qty <= 0 fails with InvalidQuantity,
\* whether or not the SKU is registered and whatever allow_negative is, and
\* writes no movement; every movement has a non-zero change_qty.
C11_InvalidQuantity ==
    /\ [](\A m \in moves : m.change_qty # 0)
    /\ [][(out'.op \in {"in", "out"} /\ out'.qty <= 0)
          => (/\ out'.status = "InvalidQuantity"
              /\ moves' = moves /\ moveSeq' = moveSeq /\ items' = items)]_vars

\* C11 witness: an outbound of quantity 0 with allow_negative on a SKU that
\* is not registered was rejected as InvalidQuantity, movements being present
C11_Witness ==
    /\ out.op = "out" /\ out.qty = 0 /\ out.allow
    /\ out.status = "InvalidQuantity"
    /\ ~HasSku(items, out.sku)
    /\ moves # {}

\* C12: an inbound or outbound with qty > 0 on a SKU that no item carries
\* fails with UnknownItem and leaves items and movements as they were; no
\* item is created for it.
C12_UnknownItem ==
    [][(out'.op \in {"in", "out"} /\ out'.qty > 0 /\ ~HasSku(items, out'.sku))
       => (/\ out'.status = "UnknownItem"
           /\ items' = items /\ itemSeq' = itemSeq
           /\ moves' = moves /\ moveSeq' = moveSeq
           /\ ~HasSku(items', out'.sku))]_vars

\* C12 witness: an inbound was rejected as UnknownItem on a SKU whose item
\* was deleted (its movements are still stored) while another item exists
C12_Witness ==
    /\ out.op = "in" /\ out.qty > 0 /\ out.status = "UnknownItem"
    /\ ~HasSku(items, out.sku)
    /\ items # {}
    /\ \E m \in moves : \A i \in items : i.id # m.item_id

\* C13: with the commands run one at a time and no outbound given
\* allow_negative, the stock of every registered item is >= 0 in every
\* state that add-item, delete-item, import, in and out reach, and the stock
\* command never reports a negative quantity.
C13_SequentialStockNonNegative ==
    /\ \A i \in items : LedgerTotal(i.id, moveSeq) >= 0 /\ GetStock(moves, i) >= 0
    /\ (out.op = "stock" /\ out.status = "ok") => out.qty >= 0

\* C13 witness: an outbound was rejected on an item that was registered after
\* an item with stock left in the ledger had been deleted
C13_Witness ==
    /\ out.op = "out" /\ out.qty > 0 /\ out.status = "InsufficientStock"
    /\ \E i \in items :
          /\ i.sku = out.sku
          /\ \E m \in moves :
                /\ m.item_id < i.id /\ m.change_qty > 0
                /\ \A j \in items : j.id # m.item_id

\* the signed quantity a successful in or out reported by `o` has written
SignedQty(o) == IF o.op = "in" THEN o.qty ELSE 0 - o.qty

\* C14: a successful in or out adds exactly one movement, owned by the item
\* with that SKU, of change_qty +qty or -qty, with an id above the id of
\* every movement there ever was, and leaves every other movement and every
\* item as it was; no step other than the deletion of the owning item
\* changes or removes a stored movement.
C14_AppendOnly ==
    [][/\ (out'.op \in {"in", "out"} /\ out'.status = "ok") =>
             /\ HasSku(items, out'.sku)
             /\ \E n \in moves' :
                   /\ n \notin moves
                   /\ moves' = moves \cup {n}
                   /\ Cardinality(moves') = Cardinality(moves) + 1
                   /\ n.item_id = GetItemBySku(items, out'.sku).id
                   /\ n.change_qty = SignedQty(out')
                   /\ n.id = out'.id
                   /\ n.id > moveSeq
                   /\ \A m \in moves : n.id > m.id
             /\ items' = items
       /\ \A m \in moves :
             \/ m \in moves'
             \/ /\ out'.op = "delete-item"
                /\ \E i \in items : i.id = m.item_id /\ i.sku = out'.sku]_vars

\* C14 witness: an outbound wrote the movement of id 2 and of change -qty
\* next to the movement of id 1
C14_Witness ==
    /\ out.op = "out" /\ out.status = "ok" /\ out.id = 2
    /\ \E m \in moves : m.id = 1
    /\ \E n \in moves : n.id = 2 /\ n.change_qty = 0 - out.qty
    /\ Cardinality(moves) = 2

\* C15: of two add-item invocations run at once on a SKU that no item
\* carried when each ran its SELECT, neither ends in the INSERT's error, and
\* no two items ever carry the same SKU.
C15_ConcurrentUpsertsSucceed ==
    /\ \A p \in Procs :
          (procs[p].pc = "done" /\ procs[p].cmd = "add-item")
             => procs[p].status # "IntegrityError"
    /\ \A i, j \in items : i.sku = j.sku => i = j

\* C16: an add-item on a SKU that no item carries (never registered, or
\* deleted with its movements) registers an item whose id is above every id
\* handed out before and is the id of no item and of no movement's owner, so
\* its stock is 0 and its history is empty; while no item carries a SKU, the
\* stock and history commands report that SKU as not found.
C16_RecreatedItemIsFresh ==
    [][/\ (out'.op = "add-item" /\ ~HasSku(items, out'.item.sku)) =>
             /\ out'.item \in items'
             /\ out'.item.id > itemSeq
             /\ \A i \in items : i.id # out'.item.id
             /\ \A m \in moves' : m.item_id # out'.item.id
             /\ moves' = moves
             /\ LedgerTotal(out'.item.id, moveSeq) = 0
             /\ GetStock(moves', out'.item) = 0
             /\ IterHistory(moves', out'.item, -1) = <<>>
       /\ (out'.op \in {"stock", "history"} /\ ~HasSku(items, out'.sku)) =>
             out'.status = "NotFound"
       /\ (out'.op = "stock" /\ HasSku(items, out'.sku)) =>
             out'.qty = LedgerTotal(GetItemBySku(items, out'.sku).id, moveSeq)
       /\ (out'.op = "history" /\ HasSku(items, out'.sku)) =>
             \A k \in 1..Len(out'.rows) :
                out'.rows[k].item_id = GetItemBySku(items, out'.sku).id]_vars

\* C16 witness: the history of SKU A, registered again after the item that
\* carried it was deleted with a movement, was read and is empty
C16_Witness ==
    /\ out.op = "history" /\ out.sku = TxtA /\ out.status = "ok" /\ out.rows = <<>>
    /\ \E i \in items :
          /\ i.sku = TxtA
          /\ \E m \in moves : m.item_id < i.id /\ \A j \in items : j.id # m.item_id

\* C17: an import that succeeds leaves the movements as they were and
\* returns the number of rows of its file; the same file imported again
\* right after it succeeds with the same count and leaves the items (ids,
\* SKUs, names, units, min_qty) and the id sequence as the first import
\* left them.
C17_ImportIdempotent ==
    [][(out'.op = "import" /\ out'.status = "ok") =>
          /\ moves' = moves /\ moveSeq' = moveSeq
          /\ \A i \in items' : GetStock(moves', i) = LedgerTotal(i.id, moveSeq)
          /\ \A f \in ImportArgs :
                LET first == ImportItemsCsv(items, itemSeq, f)
                    again == ImportItemsCsv(items', itemSeq', f)
                IN  (/\ f.header = out'.header
                     /\ Len(f.rows) = out'.count
                     /\ first.status = "ok"
                     /\ first.items = items'
                     /\ first.itemSeq = itemSeq')
                    => (/\ again.status = "ok"
                        /\ again.count = out'.count
                        /\ again.count = Len(f.rows)
                        /\ again.items = items'
                        /\ again.itemSeq = itemSeq')]_vars

\* C17 witness: an import of two rows succeeded, registering two items,
\* while a movement is stored
C17_Witness ==
    /\ out.op = "import" /\ out.status = "ok" /\ out.count = 2
    /\ Cardinality(items) = 2
    /\ moves # {}

\* C18: every item has a non-empty SKU and a non-empty name, whatever
\* add-item is given and whatever rows an import reads.
C18_SkuAndNameNonEmpty == \A i \in items : i.sku # TxtEmpty /\ i.name # TxtEmpty

====
